---- MODULE Spec2Model ----
(***************************************************************************)
(* Supervision state machine of the little-reaper repository.              *)
(*                                                                         *)
(* Three programs are modelled, selected by the variable prog:             *)
(*   "tinyreaper" : src/unnamed/part_002 (tinyreaper 1.0.1)                *)
(*   "wt"         : the -w/-t variant, src/examples/make-orphan.c 34..330  *)
(*   "lr"         : src/little-reaper.c, which installs no signal handler  *)
(* Spec is the first two, SpecLR the third.                                *)
(*                                                                         *)
(* The supervisor is one thread (pc) that signal handlers preempt.  The    *)
(* handlers are installed with an empty sa_mask and without SA_NODEFER, so *)
(* a handler blocks only its own signal and handlers of different signals  *)
(* nest: hstack is the stack of handler frames, the top one runs.          *)
(* start_shutdown / handle_shutdown_signal are split where another        *)
(* handler can see the difference: read flag | write flag | kill, alarm.   *)
(* Time passes (Tick) only while main is at its wait() call: the           *)
(* statements between two waits take far less than the timer's resolution  *)
(* of one second.                                                          *)
(***************************************************************************)
EXTENDS Integers, Sequences, FiniteSets, TLC

\* ------------------------------------------------------------- bounds
\* number of pids besides the command's that adopted orphans use, so the
\* supervisor has at most 1 + MaxOrphans children at a time; adoptions, pid
\* reuse are not bounded
MaxOrphans == 1
\* largest exit code a descendant uses besides exit(-1)
MaxExitCode == 1
\* number of signals other processes send to the supervisor in one run
MaxSignals == 2

\* ---------------------------------------------------- program constants
SIGINT == 2
SIGQUIT == 3
SIGALRM == 14
SIGTERM == 15
shutdown_timeout_seconds == 5
\* getpid() of the supervisor
SelfPid == 1
\* si_pid of a signal the kernel generates (the alarm timer)
KernelPid == 0
\* initial command_pid, fork()'s error return, and "no signal pending"
NoPid == -1
\* exit(-1) as the parent sees it
FailureStatus == 255
\* errno after a failed wait()
ECHILD == 10
EINTR == 4

CommandPid == SelfPid + 1
Pids == CommandPid..(CommandPid + MaxOrphans)
\* some process that is neither the supervisor nor the kernel
ExtPid == CommandPid + MaxOrphans + 1
Signals == {SIGTERM, SIGINT, SIGQUIT, SIGALRM}
Programs == {"tinyreaper", "wt"}

\* ------------------------------------------------- wait status (sys/wait.h)
ExitedStatus(code) == (code % 256) * 256
SignaledStatus(sig) == sig
WIFEXITED(status) == (status % 128) = 0
WEXITSTATUS(status) == (status \div 256) % 256
WIFSIGNALED(status) == (status % 128) # 0 /\ (status % 128) # 127

\* the statuses a descendant may terminate with
Statuses == {ExitedStatus(c) : c \in 0..MaxExitCode} \cup {SignaledStatus(SIGTERM)}

VARIABLES
  prog,                    \* which program runs
  wait_for_all_children,   \* -w (wt)
  terminate_all_children_after_command_terminated,  \* -t (wt)
  leader,                  \* getpgrp() == getpid() after setpgrp()
  pc,                      \* main: "fork" "wait" "ss_set" "ss_kill" "t_kill" "finish" "done"
  command_pid,
  command_status,
  shutdown_in_progress,
  hstack,                  \* handler frames [sig, pc]
  pending,                 \* pending[sig] = si_pid of the pending signal, NoPid if none
  alarm_left,              \* seconds until the alarm timer fires, 0 = not armed
  pst,                     \* pst[p]: "none" | "running" | "zombie" (children of the supervisor)
  pstatus,                 \* wait status of the zombie a wait() for command_pid would return
  cmd_phase,               \* command child: "none" "preexec" "command" "execfailed" "gone"
  how,                     \* "none" | "normal" (exit(rc)) | "alarm" (handle_alarm) | "killed"
  exit_status,             \* the supervisor's exit status, NoPid while running
  \* ---- history variables (observers, never read by the program)
  n_trans,                 \* number of shutdown_in_progress = 1 assignments
  n_kill,                  \* number of kill(0, SIGTERM) calls of a shutdown
  t_signalled,             \* -t: kill(0, SIGTERM) was called after the command was reaped
  n_arm,                   \* number of alarm() calls
  trigger,                 \* who set the flag first: "none" | "signal" | "command"
  alarm_from,              \* si_pid of the SIGALRM that made handle_alarm exit
  cmd_seen,                \* the loop recorded a status for command_pid
  first_status,            \* the status the command itself terminated with
  eintr,                   \* a handler interrupted the wait() main is blocked in
  echild,                  \* wait reported ECHILD
  sent,                    \* signals other processes sent so far
  wait_error_logged,       \* the loop wrote a log line for a failed wait() other than ECHILD
  child,                   \* the forked child between fork() and execv(): its copy of the program
  cmd_signalled,           \* the command is running and a kill(0, SIGTERM) of the supervisor reached it
  \* ---- little-reaper.c
  args,                    \* the option letters on the command line
  fault_tolerant,
  wait_for_all_sub_processes,
  wait_forever,
  dont_reap,
  subreaper,               \* prctl(PR_SET_CHILD_SUBREAPER) succeeded
  command_terminated,
  no_child_left

vars == <<prog, wait_for_all_children, terminate_all_children_after_command_terminated,
          leader, pc, command_pid, command_status, shutdown_in_progress,
          hstack, pending, alarm_left, pst, pstatus, cmd_phase, how, exit_status,
          n_trans, n_kill, t_signalled, n_arm, trigger, alarm_from,
          cmd_seen, first_status, eintr, echild, sent, wait_error_logged, cmd_signalled, child,
          args, fault_tolerant, wait_for_all_sub_processes, wait_forever, dont_reap,
          subreaper, command_terminated, no_child_left>>

config == <<prog, wait_for_all_children, terminate_all_children_after_command_terminated, leader>>
procs == <<pst, pstatus, cmd_phase, first_status>>
shutdown == <<shutdown_in_progress, n_trans, trigger>>
timer == <<alarm_left, n_arm>>
result == <<how, exit_status, alarm_from>>
loopst == <<command_pid, command_status, cmd_seen, echild>>
lrflags == <<fault_tolerant, wait_for_all_sub_processes, wait_forever, dont_reap>>
lrst == <<args, lrflags, subreaper, command_terminated, no_child_left>>

\* ------------------------------------------------------------ helpers
Top == hstack[Len(hstack)]
Pop == SubSeq(hstack, 1, Len(hstack) - 1)
InHandler == hstack # <<>>
\* the signal of a running handler is blocked (no SA_NODEFER, empty sa_mask)
Blocked == {hstack[i].sig : i \in 1..Len(hstack)}
Deliverable == {s \in Signals : pending[s] # NoPid /\ s \notin Blocked}
Alive == how = "none"
\* a pending signal that is not blocked is delivered before anything else
\* happens: user code and the environment move only when none is
CanRun == Alive /\ Deliverable = {}
CtxPc == IF InHandler THEN Top.pc ELSE pc
Children == {p \in Pids : pst[p] # "none"}
Zombies == {p \in Pids : pst[p] = "zombie"}
\* the process the supervisor forked is still running (before or after exec)
CommandAlive == pst[CommandPid] = "running" /\ cmd_phase \in {"preexec", "command"}

\* ------------------------------------------------------ code, as operators
\* initialize_signal_handler: sigs[]
HandledSignals(p) ==
  IF p = "tinyreaper" THEN {SIGTERM, SIGINT, SIGQUIT, SIGALRM}
  ELSE IF p = "wt" THEN {SIGTERM, SIGINT, SIGALRM}
  ELSE {}

\* signal_handler: the cases of the switch that start a shutdown
ShutdownSignals(p) ==
  IF p = "tinyreaper" THEN {SIGTERM, SIGINT, SIGQUIT} ELSE {SIGTERM, SIGINT}

\* a handler without the filter on the sender
IgnoredBySender_NoFilter(sig, si_pid) == FALSE

\* signal_handler: if (sig == SIGTERM && siginfo->si_pid == getpid()) return;
IgnoredBySender(sig, si_pid) == sig = SIGTERM /\ si_pid = SelfPid

\* start_shutdown: if (shutdown_in_progress) return;
ShutdownAlreadyInProgress(flag) == flag # 0

\* handle_alarm: if (shutdown_in_progress) exit(-1);
HandleAlarmExits(flag) == flag # 0

\* a helper that signals the group without looking at its leader
SendsToGroup_Always(isLeader) == TRUE

\* send_signal_to_all_children: if (getpgrp() == getpid()) kill(0, sig);
SendsToGroup(isLeader) == isLeader

\* kill(0, sig) as the supervisor receives it: standard signals do not queue
SendSignalToAllChildren(pend, sig) ==
  IF SendsToGroup(leader) /\ pend[sig] = NoPid THEN [pend EXCEPT ![sig] = SelfPid] ELSE pend

\* the command's own exit code as return code (what little-reaper.c does)
ReturnCode_OwnExitCode(status) ==
  IF WIFSIGNALED(status) THEN -1 ELSE WEXITSTATUS(status)

\* a return code that looks only at termination by signal
ReturnCode_SignaledOnly(status) ==
  IF WIFSIGNALED(status) THEN -1 ELSE 0

\* main: rc = ((WIFEXITED && WEXITSTATUS != 0) || WIFSIGNALED) ? -1 : 0
ReturnCode(status) ==
  IF (WIFEXITED(status) /\ WEXITSTATUS(status) # 0) \/ WIFSIGNALED(status) THEN -1 ELSE 0

\* exit(rc): the low 8 bits reach the parent
ExitStatusOf(rc) == rc % 256

\* a loop that gives up on any error of wait()
LoopBreaks_AnyError(errno) == errno \in {ECHILD, EINTR}

\* (mutant) the loop ends when wait() was interrupted, not on ECHILD
LoopBreaks_OnInterrupt(errno) == errno = EINTR

\* main: else if (child == -1 && errno == ECHILD) break;  any other error
\* of wait() is retried
LoopBreaks(errno) == errno = ECHILD

\* main is inside wait() with nothing to return yet
BlockedInWait == ~InHandler /\ pc = "wait" /\ Children # {} /\ Zombies = {}

\* a variant in which every program starts a shutdown when the command
\* was reaped, as tinyreaper does
AfterCommand_StartShutdown ==
  IF shutdown_in_progress # 0 THEN "wait" ELSE "ss_set"

\* a variant that never terminates the remaining children (-t ignored)
AfterCommand_NoTerminate ==
  IF prog = "tinyreaper"
  THEN (IF shutdown_in_progress # 0 THEN "wait" ELSE "ss_set")
  ELSE IF ~wait_for_all_children THEN "finish"
  ELSE "wait"

\* a variant that leaves the loop after the command whatever -w says
AfterCommand_NoWaitForAll ==
  IF prog = "tinyreaper"
  THEN (IF shutdown_in_progress # 0 THEN "wait" ELSE "ss_set")
  ELSE IF terminate_all_children_after_command_terminated THEN "t_kill"
  ELSE "finish"

\* main, after the command was reaped: where the loop goes next
\* tinyreaper: start_shutdown(); wt: -t broadcasts, without -w break
AfterCommand ==
  IF prog = "tinyreaper"
  THEN (IF ShutdownAlreadyInProgress(shutdown_in_progress) THEN "wait" ELSE "ss_set")
  ELSE IF terminate_all_children_after_command_terminated THEN "t_kill"
  ELSE IF ~wait_for_all_children THEN "finish"
  ELSE "wait"

\* no child in the window between fork() and execv()
NoChild == [flag |-> 0, pending |-> FALSE, ran |-> FALSE, alarm |-> FALSE]

\* fork(): the child has a copy of the supervisor's memory and its signal
\* dispositions; pending signals and alarms are not inherited
ForkedChild(flag) == [flag |-> flag, pending |-> FALSE, ran |-> FALSE, alarm |-> FALSE]

\* ----------------------------------------------------------------- Init
\* the state after initialize_signal_handler(), before fork()
Init ==
  /\ prog \in Programs
  /\ wait_for_all_children \in (IF prog = "wt" THEN BOOLEAN ELSE {FALSE})
  /\ terminate_all_children_after_command_terminated \in (IF prog = "wt" THEN BOOLEAN ELSE {FALSE})
  /\ leader \in BOOLEAN
  /\ pc = "fork"
  /\ command_pid = NoPid
  /\ command_status = 0
  /\ shutdown_in_progress = 0
  /\ hstack = <<>>
  /\ pending = [s \in Signals |-> NoPid]
  /\ alarm_left = 0
  /\ pst = [p \in Pids |-> "none"]
  /\ pstatus = 0
  /\ cmd_phase = "none"
  /\ how = "none"
  /\ exit_status = NoPid
  /\ n_trans = 0 /\ n_kill = 0 /\ t_signalled = FALSE /\ n_arm = 0
  /\ trigger = "none"
  /\ alarm_from = NoPid
  /\ cmd_seen = FALSE
  /\ first_status = NoPid
  /\ eintr = FALSE
  /\ echild = FALSE
  /\ sent = 0
  /\ wait_error_logged = FALSE
  /\ cmd_signalled = FALSE
  /\ child = NoChild
  /\ args = {}
  /\ fault_tolerant = 0 /\ wait_for_all_sub_processes = 0
  /\ wait_forever = 0 /\ dont_reap = 0
  /\ subreaper = TRUE
  /\ command_terminated = 0 /\ no_child_left = 0

\* -------------------------------------------------------- main program
\* command_pid = fork(): the child exists, or fork failed and returned -1
Fork(ok) ==
  /\ CanRun /\ ~InHandler /\ pc = "fork"
  /\ pc' = "wait"
  /\ IF ok
     THEN /\ command_pid' = CommandPid
          /\ pst' = [pst EXCEPT ![CommandPid] = "running"]
          /\ cmd_phase' = "preexec"
          /\ child' = ForkedChild(shutdown_in_progress)
     ELSE /\ command_pid' = NoPid
          /\ UNCHANGED <<pst, cmd_phase, child>>
  /\ UNCHANGED <<config, lrst, wait_error_logged, cmd_signalled, command_status, shutdown, hstack, pending, timer, pstatus,
                 result, n_kill, t_signalled, cmd_seen, first_status, eintr, echild, sent>>

\* child = wait(&status) returned the zombie p
WaitReaps(p) ==
  /\ CanRun /\ ~InHandler /\ pc = "wait" /\ ~eintr
  /\ pst[p] = "zombie"
  /\ pst' = [pst EXCEPT ![p] = "none"]
  /\ pstatus' = (IF p = CommandPid THEN 0 ELSE pstatus)
  /\ IF p = command_pid
     THEN /\ command_status' = pstatus
          /\ cmd_seen' = TRUE
          /\ pc' = AfterCommand
     ELSE UNCHANGED <<command_status, cmd_seen, pc>>
  /\ UNCHANGED <<config, lrst, child, wait_error_logged, cmd_signalled, command_pid, shutdown, hstack, pending, timer, cmd_phase,
                 result, n_kill, t_signalled, first_status, eintr, echild, sent>>

\* wait() == -1, errno == ECHILD: the supervisor has no child
WaitEchild ==
  /\ CanRun /\ ~InHandler /\ pc = "wait" /\ ~eintr
  /\ Children = {}
  /\ echild' = TRUE
  /\ pc' = (IF LoopBreaks(ECHILD) THEN "finish" ELSE "wait")
  /\ UNCHANGED <<config, lrst, child, wait_error_logged, cmd_signalled, command_pid, command_status, shutdown, hstack, pending, timer,
                 procs, result, n_kill, t_signalled, cmd_seen, eintr, sent>>

\* the programs whose loop has a branch for a failed wait() other than ECHILD
\* (little-reaper.c: VERBOSEf("wait error (%d %s)", ...)); the loops of
\* tinyreaper and wt end with the ECHILD test and have no such branch
LogsWaitError(p) == p = "lr"

\* wait() == -1, errno == EINTR: a handler ran while main was blocked in
\* wait() (the handlers are installed without SA_RESTART)
WaitEintr ==
  /\ CanRun /\ ~InHandler /\ pc = "wait" /\ eintr
  /\ eintr' = FALSE
  /\ wait_error_logged' = (wait_error_logged \/ LogsWaitError(prog))
  /\ pc' = (IF LoopBreaks(EINTR) THEN "finish" ELSE "wait")
  /\ UNCHANGED <<config, lrst, child, cmd_signalled, command_pid, command_status, shutdown, hstack, pending, timer,
                 procs, result, n_kill, t_signalled, cmd_seen, echild, sent>>

\* wt: if (terminate_all_children_after_command_terminated) send_signal_to_all_children(SIGTERM);
\*     if (!wait_for_all_children) break;
TerminateAfterCommand ==
  /\ CanRun /\ ~InHandler /\ pc = "t_kill"
  /\ pending' = SendSignalToAllChildren(pending, SIGTERM)
  /\ cmd_signalled' = (cmd_signalled \/ (SendsToGroup(leader) /\ CommandAlive))
  /\ t_signalled' = (t_signalled \/ SendsToGroup(leader))
  /\ pc' = IF ~wait_for_all_children THEN "finish" ELSE "wait"
  /\ UNCHANGED <<eintr, config, lrst, child, wait_error_logged, loopst, shutdown, hstack, timer, procs, result, n_kill, sent>>

\* exit(rc)
Finish ==
  /\ CanRun /\ ~InHandler /\ pc = "finish"
  /\ pc' = "done"
  /\ how' = "normal"
  /\ exit_status' = ExitStatusOf(ReturnCode(command_status))
  /\ UNCHANGED <<eintr, config, lrst, child, wait_error_logged, cmd_signalled, loopst, shutdown, hstack, pending, timer, procs, alarm_from,
                 n_kill, t_signalled, sent>>

\* ------------------------------- start_shutdown / handle_shutdown_signal
\* run by main (tinyreaper, on command exit) or by the top handler frame
SetCtxPc(next) ==
  IF InHandler
  THEN /\ hstack' = (IF next = "ret" THEN Pop ELSE [hstack EXCEPT ![Len(hstack)].pc = next])
       /\ pc' = pc
  ELSE /\ pc' = (IF next = "ret" THEN "wait" ELSE next)
       /\ hstack' = hstack

\* (mutant) start_shutdown flips the flag
StartShutdownFlag_Flip(flag) == 1 - flag

\* the value start_shutdown / handle_shutdown_signal stores in the flag
StartShutdownFlag(flag) == 1

\* (mutant) start_shutdown also clears the recorded command status
SetFlag_ClearsCommandStatus ==
  /\ CanRun /\ CtxPc = "ss_set"
  /\ shutdown_in_progress' = 1
  /\ n_trans' = n_trans + 1
  /\ trigger' = (IF trigger # "none" THEN trigger ELSE IF InHandler THEN "signal" ELSE "command")
  /\ SetCtxPc("ss_kill")
  /\ command_status' = 0
  /\ UNCHANGED <<eintr, config, lrst, child, wait_error_logged, cmd_signalled, command_pid, cmd_seen, echild, pending, timer, procs,
                 result, n_kill, t_signalled, sent>>

\* shutdown_in_progress = 1;  (wt also stores sig in shutdown_signal, which
\* nothing reads: it is not part of the state)
SetFlag ==
  /\ CanRun /\ CtxPc = "ss_set"
  /\ shutdown_in_progress' = StartShutdownFlag(shutdown_in_progress)
  /\ n_trans' = n_trans + 1
  /\ trigger' = (IF trigger # "none" THEN trigger ELSE IF InHandler THEN "signal" ELSE "command")
  /\ SetCtxPc("ss_kill")
  /\ UNCHANGED <<eintr, config, lrst, child, wait_error_logged, cmd_signalled, loopst, pending, timer, procs, result, n_kill, t_signalled, sent>>

\* send_signal_to_all_children(SIGTERM); alarm(shutdown_timeout_seconds);
\* No handler reads what kill() and alarm() write before the flag, which is
\* set by now, so the two calls are one step.
BroadcastAndArm ==
  /\ CanRun /\ CtxPc = "ss_kill"
  /\ pending' = SendSignalToAllChildren(pending, SIGTERM)
  /\ cmd_signalled' = (cmd_signalled \/ (SendsToGroup(leader) /\ CommandAlive))
  /\ child' = (IF SendsToGroup(leader) /\ cmd_phase = "preexec"
                THEN [child EXCEPT !.pending = TRUE] ELSE child)
  /\ n_kill' = (IF SendsToGroup(leader) THEN n_kill + 1 ELSE n_kill)
  /\ alarm_left' = shutdown_timeout_seconds
  /\ n_arm' = n_arm + 1
  /\ SetCtxPc("ret")
  /\ UNCHANGED <<eintr, config, lrst, wait_error_logged, loopst, shutdown, procs, result, t_signalled, sent>>

\* ------------------------------------------------------- signal_handler
\* delivery of the pending signal s: the handler up to the first access it
\* makes to shared state after the flag was read
Deliver(s) ==
  /\ Alive /\ s \in Deliverable
  /\ pending' = [pending EXCEPT ![s] = NoPid]
  /\ eintr' = (eintr \/ (s \in HandledSignals(prog) /\ BlockedInWait))
  /\ IF s \notin HandledSignals(prog)
     THEN \* default action: the supervisor is killed by the signal
          /\ how' = "killed" /\ pc' = "done"
          /\ UNCHANGED <<hstack, exit_status, alarm_from>>
     ELSE IF IgnoredBySender(s, pending[s])
     THEN UNCHANGED <<hstack, pc, result>>
     ELSE IF s = SIGALRM
     THEN \* handle_alarm
          IF HandleAlarmExits(shutdown_in_progress)
          THEN /\ how' = "alarm" /\ pc' = "done"
               /\ exit_status' = ExitStatusOf(-1)
               /\ alarm_from' = pending[s]
               /\ UNCHANGED <<hstack>>
          ELSE UNCHANGED <<hstack, pc, result>>
     ELSE IF s \in ShutdownSignals(prog)
     THEN \* start_shutdown / handle_shutdown_signal: the flag is read
          IF ShutdownAlreadyInProgress(shutdown_in_progress)
          THEN UNCHANGED <<hstack, pc, result>>
          ELSE /\ hstack' = Append(hstack, [sig |-> s, pc |-> "ss_set"])
               /\ UNCHANGED <<pc, result>>
     ELSE UNCHANGED <<hstack, pc, result>>
  /\ UNCHANGED <<config, lrst, child, wait_error_logged, cmd_signalled, loopst, shutdown, timer, procs, n_kill, t_signalled, sent>>

\* signal_handler in the forked child before execv(): the child inherited the
\* handlers (execv resets them), si_pid is the supervisor's pid and not the
\* child's getpid(), so the SIGTERM is not filtered and start_shutdown runs
\* on the child's copy of the flag; the child does not lead the group, so
\* its send_signal_to_all_children sends nothing, and alarm() arms a timer
\* of the child, which execv() keeps
ChildSignalHandler ==
  /\ CanRun /\ cmd_phase = "preexec" /\ child.pending
  /\ child' = IF ShutdownAlreadyInProgress(child.flag)
              THEN [child EXCEPT !.pending = FALSE, !.ran = TRUE]
              ELSE [child EXCEPT !.pending = FALSE, !.ran = TRUE,
                                 !.flag = StartShutdownFlag(child.flag), !.alarm = TRUE]
  /\ UNCHANGED <<eintr, config, lrst, wait_error_logged, cmd_signalled, pc, loopst, shutdown,
                 hstack, pending, timer, procs, result, n_kill, t_signalled, sent>>

\* ---------------------------------------------------------- environment
\* execv in the forked child: the command runs, or exec failed and the
\* child called exit(-1)
Exec(ok) ==
  /\ CanRun /\ cmd_phase = "preexec"
  /\ cmd_signalled' = (cmd_signalled /\ ok)
  /\ child' = NoChild
  /\ IF ok
     THEN /\ cmd_phase' = "command"
          /\ UNCHANGED <<pst, pstatus, first_status>>
     ELSE /\ cmd_phase' = "execfailed"
          /\ pst' = [pst EXCEPT ![CommandPid] = "zombie"]
          /\ pstatus' = ExitedStatus(-1)
          /\ first_status' = ExitedStatus(-1)
  /\ UNCHANGED <<eintr, config, lrst, wait_error_logged, pc, loopst, shutdown, hstack, pending, timer, result, n_kill, t_signalled, sent>>

\* a child of the supervisor terminates with the wait status st; the loop
\* reads the status only of a child whose pid is command_pid (the status of
\* any other child is logged and dropped), so only that one is kept
Terminate(p, st) ==
  /\ CanRun /\ pst[p] = "running"
  /\ ~(p = CommandPid /\ cmd_phase = "preexec")
  /\ pst' = [pst EXCEPT ![p] = "zombie"]
  /\ cmd_signalled' = (cmd_signalled /\ ~(p = CommandPid /\ cmd_phase = "command"))
  /\ pstatus' = (IF p = CommandPid THEN st ELSE pstatus)
  /\ IF p = CommandPid /\ cmd_phase = "command"
     THEN cmd_phase' = "gone" /\ first_status' = st
     ELSE UNCHANGED <<cmd_phase, first_status>>
  /\ UNCHANGED <<eintr, config, lrst, child, wait_error_logged, pc, loopst, shutdown, hstack, pending, timer, result, n_kill, t_signalled, sent>>

\* an orphaned descendant is re-parented to the supervisor (subreaper).  Its
\* pid is the command's, if that was reaped before (pid reuse), or another
\* one; the program compares a pid only with command_pid, so of the other
\* free pids the smallest stands for all
FreshPid(p) == p # CommandPid /\ \A q \in Pids : (q # CommandPid /\ q < p) => pst[q] # "none"

Adopt(p) ==
  /\ CanRun /\ pst[p] = "none" /\ subreaper
  /\ p = CommandPid \/ FreshPid(p)
  /\ \E q \in Pids : pst[q] = "running" /\ (q # CommandPid \/ cmd_phase # "preexec")
  /\ pst' = [pst EXCEPT ![p] = "running"]
  /\ UNCHANGED <<eintr, config, lrst, child, wait_error_logged, cmd_signalled, pc, loopst, shutdown, hstack, pending, timer, result, n_kill, t_signalled,
                 pstatus, cmd_phase, first_status, sent>>

\* some process sends the supervisor a signal; si_pid is what the sender
\* says it is (rt_sigqueueinfo lets a sender choose it)
ExtSignal(s, from) ==
  /\ CanRun /\ pending[s] = NoPid /\ sent < MaxSignals
  /\ pending' = [pending EXCEPT ![s] = from]
  /\ sent' = sent + 1
  /\ UNCHANGED <<eintr, config, lrst, child, wait_error_logged, cmd_signalled, pc, loopst, shutdown, hstack, timer, procs, result, n_kill, t_signalled>>

\* one second passes
Tick ==
  /\ ~InHandler /\ pc = "wait" /\ ~eintr
  /\ CanRun /\ alarm_left > 0
  /\ alarm_left' = alarm_left - 1
  /\ pending' = (IF alarm_left = 1 /\ pending[SIGALRM] = NoPid
                 THEN [pending EXCEPT ![SIGALRM] = KernelPid] ELSE pending)
  /\ UNCHANGED <<eintr, config, lrst, child, wait_error_logged, cmd_signalled, pc, loopst, shutdown, hstack, n_arm, procs, result, n_kill, t_signalled, sent>>

\* si_pid of a signal another process sends: its own pid, or for the
\* signals whose handler looks at si_pid, a forged one
Senders(s) == IF s = SIGALRM THEN {ExtPid} ELSE {SelfPid, ExtPid}

Supervisor ==
  \/ \E ok \in BOOLEAN : Fork(ok)
  \/ \E p \in Pids : WaitReaps(p)
  \/ WaitEchild
  \/ WaitEintr
  \/ TerminateAfterCommand
  \/ Finish
  \/ SetFlag
  \/ BroadcastAndArm
  \/ \E s \in Signals : Deliver(s)
  \/ ChildSignalHandler

Environment ==
  \/ \E ok \in BOOLEAN : Exec(ok)
  \/ \E p \in Pids, st \in Statuses : Terminate(p, st)
  \/ \E p \in Pids : Adopt(p)
  \/ \E s \in Signals : \E from \in Senders(s) : ExtSignal(s, from)

Next == Supervisor \/ Environment \/ Tick

Spec == Init /\ [][Next]_vars

\* ====================================================== little-reaper.c
\* main: the cases of the option switch that set a flag (-v only logs)
KnownOptions == {"e", "w", "W", "r"}
\* print_usage: "-f: fault tolerant mode"
DocumentedFaultTolerantOption == "f"
\* the option letters a command line is made of
Options == KnownOptions \cup {DocumentedFaultTolerantOption}

\* main: case 'e': fault_tolerant = 1;
SetsFaultTolerant(letters) == IF "e" \in letters THEN 1 ELSE 0

\* make_me_a_reaper: if (rc == -1) { ... if (!fault_tolerant) exit(-1); }
ReaperFailureExits(ft) == ft = 0

\* return_code_from_process_status
return_code_from_process_status(status) ==
  IF WIFSIGNALED(status) THEN -1
  ELSE IF WIFEXITED(status) THEN WEXITSTATUS(status)
  ELSE -1

\* (mutant) the end of an iteration without the wait_forever branch
AfterWait_IgnoresWaitForever(terminated, none_left) ==
  IF wait_for_all_sub_processes # 0
  THEN (IF none_left # 0
        THEN (IF terminated # 0 THEN "exit" ELSE "abort")
        ELSE "wait")
  ELSE IF terminated # 0 THEN "exit" ELSE "wait"

\* main, the end of one iteration of the loop: "sleep" (infinite_sleep),
\* "exit" (exit(return_code_from_process_status(command_status))), "abort"
\* (assert(command_terminated) failed) or "wait" (next iteration)
AfterWait(terminated, none_left) ==
  IF wait_forever # 0
  THEN (IF none_left # 0 THEN "sleep" ELSE "wait")
  ELSE IF wait_for_all_sub_processes # 0
  THEN (IF none_left # 0
        THEN (IF terminated # 0 THEN "exit" ELSE "abort")
        ELSE "wait")
  ELSE IF terminated # 0 THEN "exit" ELSE "wait"

\* the state before main parses its arguments
InitLR ==
  /\ prog = "lr"
  /\ args \in SUBSET Options
  /\ fault_tolerant = 0 /\ wait_for_all_sub_processes = 0
  /\ wait_forever = 0 /\ dont_reap = 0
  /\ subreaper = FALSE
  /\ command_terminated = 0 /\ no_child_left = 0
  /\ wait_for_all_children = FALSE
  /\ terminate_all_children_after_command_terminated = FALSE
  /\ leader = FALSE
  /\ pc = "parse"
  /\ command_pid = NoPid
  /\ command_status = 0
  /\ shutdown_in_progress = 0
  /\ hstack = <<>>
  /\ pending = [s \in Signals |-> NoPid]
  /\ alarm_left = 0
  /\ pst = [p \in Pids |-> "none"]
  /\ pstatus = 0
  /\ cmd_phase = "none"
  /\ how = "none"
  /\ exit_status = NoPid
  /\ n_trans = 0 /\ n_kill = 0 /\ t_signalled = FALSE /\ n_arm = 0
  /\ trigger = "none"
  /\ alarm_from = NoPid
  /\ cmd_seen = FALSE
  /\ first_status = NoPid
  /\ eintr = FALSE
  /\ echild = FALSE
  /\ sent = 0
  /\ wait_error_logged = FALSE
  /\ cmd_signalled = FALSE
  /\ child = NoChild

lrfixed == <<prog, wait_for_all_children, terminate_all_children_after_command_terminated,
             leader, shutdown, hstack, timer, alarm_from, n_kill, t_signalled, eintr, sent,
             wait_error_logged, cmd_signalled, child>>

\* main: the loop over argv; an unknown letter ends in print_usage, exit(-1)
ParseArguments ==
  /\ CanRun /\ pc = "parse"
  /\ IF args \subseteq KnownOptions
     THEN /\ fault_tolerant' = SetsFaultTolerant(args)
          /\ wait_for_all_sub_processes' = (IF "w" \in args THEN 1 ELSE 0)
          /\ wait_forever' = (IF "W" \in args THEN 1 ELSE 0)
          /\ dont_reap' = (IF "r" \in args THEN 1 ELSE 0)
          /\ pc' = "reaper"
          /\ UNCHANGED <<how, exit_status>>
     ELSE /\ how' = "usage" /\ exit_status' = ExitStatusOf(-1) /\ pc' = "done"
          /\ UNCHANGED lrflags
  /\ UNCHANGED <<lrfixed, args, subreaper, command_terminated, no_child_left,
                 loopst, pending, procs>>

\* make_me_a_reaper: prctl succeeded or failed
MakeMeAReaper(ok) ==
  /\ CanRun /\ pc = "reaper"
  /\ subreaper' = ok
  /\ IF ~ok /\ ReaperFailureExits(fault_tolerant)
     THEN how' = "noreaper" /\ exit_status' = ExitStatusOf(-1) /\ pc' = "done"
     ELSE pc' = "fork" /\ UNCHANGED <<how, exit_status>>
  /\ UNCHANGED <<lrfixed, args, lrflags, command_terminated, no_child_left,
                 loopst, pending, procs>>

\* command = fork(), and in the parent: if (dont_reap) { if (wait_forever)
\* infinite_sleep(); exit(0); }
ForkCommand(ok) ==
  /\ CanRun /\ pc = "fork"
  /\ IF ok
     THEN /\ command_pid' = CommandPid
          /\ pst' = [pst EXCEPT ![CommandPid] = "running"]
          /\ cmd_phase' = "preexec"
     ELSE /\ command_pid' = NoPid
          /\ UNCHANGED <<pst, cmd_phase>>
  /\ IF dont_reap # 0 /\ wait_forever = 0
     THEN how' = "noreap" /\ exit_status' = ExitStatusOf(0) /\ pc' = "done"
     ELSE /\ pc' = (IF dont_reap # 0 THEN "sleep" ELSE "wait")
          /\ UNCHANGED <<how, exit_status>>
  /\ UNCHANGED <<lrfixed, lrst, command_status, cmd_seen, echild, pending,
                 pstatus, first_status>>

\* the end of an iteration, given what this wait() left in the two flags
EndIteration(terminated, none_left, status) ==
  LET next == AfterWait(terminated, none_left) IN
  IF next = "exit"
  THEN /\ how' = "normal" /\ pc' = "done"
       /\ exit_status' = ExitStatusOf(return_code_from_process_status(status))
  ELSE IF next = "abort"
  THEN how' = "abort" /\ pc' = "done" /\ UNCHANGED exit_status
  ELSE pc' = next /\ UNCHANGED <<how, exit_status>>

\* child = wait(&status); child > 0
ReapChild(p) ==
  /\ CanRun /\ pc = "wait"
  /\ pst[p] = "zombie"
  /\ pst' = [pst EXCEPT ![p] = "none"]
  /\ pstatus' = (IF p = CommandPid THEN 0 ELSE pstatus)
  /\ IF p = command_pid
     THEN /\ command_status' = pstatus
          /\ command_terminated' = 1
          /\ cmd_seen' = TRUE
          /\ EndIteration(1, no_child_left, pstatus)
     ELSE /\ UNCHANGED <<command_status, command_terminated, cmd_seen>>
          /\ EndIteration(command_terminated, no_child_left, command_status)
  /\ UNCHANGED <<lrfixed, args, lrflags, subreaper, no_child_left, command_pid, echild,
                 pending, cmd_phase, first_status>>

\* wait() == -1 with errno == ECHILD: no_child_left = 1
NoChildLeft ==
  /\ CanRun /\ pc = "wait"
  /\ Children = {}
  /\ no_child_left' = 1
  /\ echild' = TRUE
  /\ EndIteration(command_terminated, 1, command_status)
  /\ UNCHANGED <<lrfixed, args, lrflags, subreaper, command_terminated, command_pid,
                 command_status, cmd_seen, pending, procs>>

LittleReaper ==
  \/ ParseArguments
  \/ \E ok \in BOOLEAN : MakeMeAReaper(ok)
  \/ \E ok \in BOOLEAN : ForkCommand(ok)
  \/ \E p \in Pids : ReapChild(p)
  \/ NoChildLeft
  \/ \E s \in Signals : Deliver(s)

NextLR == LittleReaper \/ Environment

SpecLR == InitLR /\ [][NextLR]_vars

\* ============================================================ properties
Exited == how \in {"normal", "alarm"}
Tiny == prog = "tinyreaper"

\* C1: whatever triggers arrive and however the handlers interleave with
\* the main loop, the flag is set, the descendants are signalled and the
\* timer is armed at most once in the supervisor's lifetime.
C1_ShutdownStartsAtMostOnce == n_trans <= 1 /\ n_kill <= 1 /\ n_arm <= 1

\* C2 (as stated): delivering SIGTERM, SIGINT or SIGQUIT whose sender is the
\* supervisor itself never starts a shutdown and changes neither the flag,
\* the timer nor the number of broadcasts.
C2_SelfSentNeverStartsShutdown ==
  [][\A s \in {SIGTERM, SIGINT, SIGQUIT} :
       (pending[s] = SelfPid /\ pending'[s] = NoPid)
         => UNCHANGED <<hstack, shutdown_in_progress, n_trans, n_kill, n_arm, alarm_left>>]_vars

\* C2 (amended): delivering a SIGTERM whose sender is the supervisor itself
\* never starts a shutdown and changes neither the flag, the timer nor the
\* number of broadcasts.
C2_SelfSentSigtermNeverStartsShutdown ==
  [][(pending[SIGTERM] = SelfPid /\ pending'[SIGTERM] = NoPid)
       => UNCHANGED <<hstack, shutdown_in_progress, n_trans, n_kill, n_arm, alarm_left>>]_vars

\* the -t variant broadcast SIGTERM to its own group after the command was
\* reaped, no other process ever sent a signal, the broadcast's SIGTERM was
\* delivered to the supervisor, and no shutdown started
C2_SelfSigtermWasIgnored ==
  /\ prog = "wt" /\ terminate_all_children_after_command_terminated /\ leader
  /\ cmd_seen /\ pc \in {"wait", "finish"} /\ hstack = <<>>
  /\ sent = 0 /\ pending[SIGTERM] = NoPid
  /\ shutdown_in_progress = 0 /\ n_trans = 0 /\ Alive

\* C3: tinyreaper takes the failure exit of the deadline only when the
\* armed timer has run out, and once the timer has run out the supervisor
\* does not go on: the timer's SIGALRM is about to be delivered.
C3_FailureExitExactlyAtDeadline ==
  Tiny =>
    /\ how = "alarm" => (n_arm > 0 /\ alarm_left = 0)
    /\ (Alive /\ shutdown_in_progress = 1 /\ n_arm > 0 /\ alarm_left = 0)
         => pending[SIGALRM] # NoPid

\* C4: once a termination signal of another process started the shutdown,
\* tinyreaper exits either through the normal exit path after wait
\* reported that no child remains, or with the failure status when the
\* timer fires.
C4_ExitAfterSignalIsEchildOrTimer ==
  (Tiny /\ trigger = "signal" /\ how # "none")
    => \/ how = "normal" /\ echild
       \/ how = "alarm" /\ alarm_from = KernelPid /\ exit_status = FailureStatus

\* C5 (as stated): by whichever path the supervisor exits, it leaves no
\* zombie among its children.
C5_NoZombieAtAnyExit == Exited => Zombies = {}

\* C5 (amended): a terminated child stops being a zombie only by one wait()
\* of the main loop, which removes it; and when tinyreaper, or the variant
\* with -w, leaves through its normal exit path, it has no child left,
\* terminated or running.
C5_NoChildAtNormalExit ==
  /\ [](how = "normal" /\ (prog = "tinyreaper" \/ wait_for_all_children) => Children = {})
  /\ [][\A p \in Pids :
          (pst[p] = "zombie" /\ pst'[p] # "zombie")
            => (pst'[p] = "none" /\ ~InHandler /\ pc = "wait")]_vars

\* the command and an adopted child with the command's pid were both
\* reaped, then the supervisor left through its normal exit path
C5_ReapedAllThenExited ==
  /\ how = "normal" /\ echild /\ cmd_seen
  /\ cmd_phase = "gone" /\ first_status # command_status

\* C6 (as stated): if the command exits normally with status N and the
\* supervisor leaves through its normal exit path, the supervisor's exit
\* status is N.
C6_ExitStatusIsCommandStatus ==
  (how = "normal" /\ first_status # NoPid /\ WIFEXITED(first_status))
    => exit_status = WEXITSTATUS(first_status)

\* C6 (amended): if the status recorded for the command is a normal exit
\* with status N and the supervisor leaves through its normal exit path,
\* the supervisor's exit status is 0 for N = 0 and the failure status for
\* every other N.
C6_ExitStatusIsZeroOrFailure ==
  (how = "normal" /\ cmd_seen /\ WIFEXITED(command_status))
    => exit_status = (IF WEXITSTATUS(command_status) = 0 THEN 0 ELSE FailureStatus)

\* the command exited with a status that is neither 0 nor the failure
\* status, and the supervisor left with the failure status
C6_NonZeroBecameFailure ==
  /\ how = "normal" /\ cmd_seen /\ WIFEXITED(command_status)
  /\ WEXITSTATUS(command_status) \notin {0, FailureStatus}
  /\ first_status = command_status
  /\ exit_status = FailureStatus

\* C7: if the command was terminated by a signal, tinyreaper's exit
\* status is never 0, neither on the normal exit path nor at the deadline.
C7_SignaledCommandNeverZero ==
  (Tiny /\ Exited /\ first_status # NoPid /\ WIFSIGNALED(first_status)) => exit_status # 0

\* C8: if the main loop of tinyreaper ends without ever having observed
\* a termination of the command, the exit status is the failure status.
C8_UnobservedCommandIsFailure ==
  (Tiny /\ how = "normal" /\ ~cmd_seen) => exit_status = FailureStatus

\* C9: if exec fails in the child tinyreaper forked, the child terminates with a
\* non-zero status, the loop records that status as the command's like any
\* other, and the supervisor's exit status is non-zero.
C9_ExecFailureIsNonZero ==
  (Tiny /\ cmd_phase = "execfailed")
    => /\ ~cmd_seen => (pst[CommandPid] = "zombie" /\ WEXITSTATUS(pstatus) # 0)
       /\ cmd_seen => (WIFEXITED(command_status) /\ WEXITSTATUS(command_status) # 0)
       /\ how = "normal" => cmd_seen
       /\ Exited => exit_status # 0

\* exec failed, the loop reaped the child and tinyreaper left through its
\* normal exit path
C9_ExecFailedAndExited ==
  Tiny /\ cmd_phase = "execfailed" /\ cmd_seen /\ how = "normal" /\ exit_status = FailureStatus

\* C10: tinyreaper takes the exit of the expired deadline only on the
\* SIGALRM of the timer it armed, and a SIGALRM delivered while no shutdown
\* is in progress changes nothing.
C10_ExpiredOnlyByArmedTimer ==
  /\ [](Tiny /\ how = "alarm"
          => (shutdown_in_progress = 1 /\ n_arm > 0 /\ alarm_from = KernelPid))
  /\ [][(Tiny /\ shutdown_in_progress = 0 /\ pending[SIGALRM] # NoPid /\ pending'[SIGALRM] = NoPid)
          => UNCHANGED <<shutdown_in_progress, how, exit_status, hstack, pc,
                         alarm_left, n_kill, n_arm>>]_vars

WT == prog = "wt"

TerminateOnly ==
  /\ WT /\ terminate_all_children_after_command_terminated /\ ~wait_for_all_children
  /\ cmd_seen

\* C12: with -t and without -w, once the command was reaped the supervisor
\* calls send_signal_to_all_children(SIGTERM) (which signals the group when
\* the supervisor leads it) before it leaves the loop, and from the reap on
\* it performs no wait() any more: no child is reaped, no ECHILD is seen,
\* and it exits also while children are alive.
C12_TerminateThenExitWithoutWait ==
  /\ [](TerminateOnly /\ (pc = "finish" \/ how = "normal")
          => t_signalled = leader)
  /\ [][TerminateOnly
          => /\ pc' # "wait" /\ echild' = echild /\ eintr' = eintr
             /\ \A p \in Pids : pst[p] = "zombie" => pst'[p] = "zombie"]_vars

\* -t without -w: the group was signalled after the command was reaped and
\* the supervisor left normally while a child was still there
C12_ExitedWithChildrenAlive ==
  TerminateOnly /\ how = "normal" /\ t_signalled /\ Children # {}

\* the variant with -t, after the command was reaped and -t was acted on
TerminateDone ==
  /\ WT /\ terminate_all_children_after_command_terminated /\ cmd_seen
  /\ ~InHandler /\ pc \in {"wait", "finish", "done"}

\* C13 (as stated): in the variant with -t, once the command's termination
\* was handled the shutdown is in progress and the deadline timer was armed.
C13_CommandExitStartsShutdown ==
  (TerminateDone /\ how \in {"none", "normal"}) => (shutdown_in_progress = 1 /\ n_arm > 0)

\* C13 (amended): in the variant with -t, the command's termination only
\* makes the supervisor call send_signal_to_all_children(SIGTERM): that
\* step changes neither the shutdown flag nor the timer, and the flag is
\* set and the timer armed only by a shutdown that a signal started.
C13_CommandExitOnlyBroadcasts ==
  /\ [](WT /\ (shutdown_in_progress = 1 \/ n_arm > 0 \/ alarm_left > 0)
          => trigger = "signal")
  /\ [][(WT /\ ~InHandler /\ pc = "t_kill" /\ pc' \in {"wait", "finish"})
          => /\ UNCHANGED <<shutdown_in_progress, n_trans, n_arm, alarm_left, hstack>>
             /\ t_signalled' = (t_signalled \/ leader)]_vars

\* -tw: the command was reaped, the group was signalled, a child is still
\* there, and the supervisor waits with no shutdown in progress and no
\* timer armed
C13_WaitsWithoutDeadline ==
  /\ TerminateDone /\ wait_for_all_children /\ pc = "wait" /\ Alive
  /\ t_signalled /\ Children # {} /\ Zombies = {}
  /\ shutdown_in_progress = 0 /\ alarm_left = 0 /\ n_arm = 0

\* C14: in the variant, the delivery of a SIGTERM, SIGINT or SIGQUIT that
\* another process sent while no shutdown is in progress leaves the
\* supervisor running and starts handle_shutdown_signal, which sends
\* SIGTERM to all children.
C14_TermIntQuitStartShutdown ==
  [][\A s \in {SIGTERM, SIGINT, SIGQUIT} :
       (WT /\ shutdown_in_progress = 0 /\ pending[s] = ExtPid /\ pending'[s] = NoPid)
         => (how' = "none" /\ hstack' = Append(hstack, [sig |-> s, pc |-> "ss_set"]))]_vars

\* C15: kill(0, sig) is called only when the supervisor leads its process
\* group; when it does not, a shutdown still sets the flag and arms the
\* timer, but no signal is sent.
C15_GroupSignalOnlyAsLeader ==
  /\ [](~leader => /\ n_kill = 0 /\ ~t_signalled
                    /\ pending[SIGTERM] = SelfPid => sent > 0)
  /\ [][(CtxPc = "ss_kill" /\ CtxPc' # "ss_kill" /\ how' = "none")
          => /\ shutdown_in_progress' = 1
             /\ n_arm' = n_arm + 1 /\ alarm_left' = shutdown_timeout_seconds
             /\ n_kill' = (IF leader THEN n_kill + 1 ELSE n_kill)
             /\ (~leader => pending' = pending)]_vars

\* the supervisor does not lead its group: a shutdown set the flag and
\* armed the timer and sent no signal
C15_ShutdownWithoutSignal ==
  /\ ~leader /\ shutdown_in_progress = 1 /\ n_arm = 1 /\ alarm_left > 0
  /\ n_kill = 0 /\ pending[SIGTERM] = NoPid /\ Alive


LR == prog = "lr"

\* C16: little-reaper.c started with the documented fault-tolerant option
\* (-f, next to options the parser knows) never exits before the fork: not
\* on its command line, and not when the registration as subreaper fails
C16_DocumentedFaultTolerantSupervises ==
  (LR /\ DocumentedFaultTolerantOption \in args
      /\ args \ {DocumentedFaultTolerantOption} \subseteq KnownOptions)
    => how \notin {"usage", "noreaper"}


\* fork() has been called: main is past it and has not left before it
AfterFork ==
  LR /\ pc \notin {"parse", "reaper", "fork"} /\ how \notin {"usage", "noreaper"}

\* C17: with -W little-reaper.c never reaches an exit call after the fork,
\* whatever -w and -r are, and it sleeps forever only when it has reaped
\* every child
C17_WaitForeverReapsAllThenSleeps ==
  (AfterFork /\ wait_forever # 0) =>
    /\ how \in {"none", "killed"}
    /\ pc = "sleep" => Children = {}

\* C17 (amended): with -W little-reaper.c never reaches an exit call after
\* the fork, whatever -w and -r are; without -r it sleeps forever only when
\* wait() has reported that no child is left, with -r it sleeps at once and
\* never waits for a child
C17_WaitForeverNeverExits ==
  (AfterFork /\ wait_forever # 0) =>
    /\ how \in {"none", "killed"}
    /\ (pc = "sleep" /\ dont_reap = 0) => (Children = {} /\ no_child_left = 1)
    /\ dont_reap # 0 => (pc # "wait" /\ ~cmd_seen /\ ~echild)

C17_SleepsAfterLastChild ==
  /\ LR /\ wait_forever # 0 /\ wait_for_all_sub_processes # 0 /\ dont_reap = 0
  /\ pc = "sleep" /\ how = "none" /\ command_terminated = 1


\* C18: once shutdown_in_progress is set no step resets it: there is no
\* transition from terminating or expired back to idle
C18_ShutdownFlagMonotone ==
  [][shutdown_in_progress # 0 => shutdown_in_progress' # 0]_vars

C18_FlagKeptUntilExpired ==
  shutdown_in_progress # 0 /\ n_trans > 1 /\ how = "alarm"


\* C19: no step of a signal handler (the delivery of a signal, and every
\* step taken while a handler frame is on the stack) changes command_status
\* or command_pid; command_status changes only when main, in the reap loop
\* and outside any handler, reaps a child whose pid is command_pid
C19_HandlerLeavesCommandStatus ==
  [][/\ (InHandler \/ \E s \in Signals : pending[s] # NoPid /\ pending'[s] = NoPid)
        => (command_status' = command_status /\ command_pid' = command_pid)
     /\ command_status' # command_status
        => (~InHandler /\ ~InHandler' /\ pc = "wait" /\ pst[command_pid] = "zombie"
            /\ pst'[command_pid] = "none")]_vars

C19_HandlerRanAfterCommandStatus ==
  /\ cmd_seen /\ command_status # 0
  /\ InHandler /\ Top.pc = "ss_kill"


\* C20: once the command's status has been recorded no later step changes
\* command_status, also when a descendant reaped later has the pid of the
\* command, and on the normal exit path the exit status is the one the
\* command's own termination status gives
C20_CommandStatusWrittenOnce ==
  /\ [][cmd_seen => command_status' = command_status]_vars
  /\ [](how = "normal" /\ cmd_seen => exit_status = ExitStatusOf(ReturnCode(first_status)))


\* C21: in tinyreaper, when wait() fails with an error other than ECHILD
\* (it was interrupted by a handled signal), the loop writes a log line
\* (verbose mode), calls wait() again, does not exit and leaves
\* command_status as it was
C21_WaitErrorLoggedAndRetried ==
  [][(Tiny /\ ~InHandler /\ pc = "wait" /\ eintr /\ ~eintr')
       => /\ wait_error_logged'
          /\ pc' = "wait" /\ how' = "none"
          /\ command_status' = command_status]_vars


\* C22: little-reaper.c without -W leaves the loop once wait() has reported
\* that no child exists: the iteration that sets no_child_left ends the
\* program, with or without -w, so no state has the flag set and the loop
\* about to call wait() again
C22_ExitsOnceNoChildLeft ==
  (LR /\ wait_forever = 0 /\ no_child_left # 0) => pc = "done"


\* C23: in little-reaper.c with -w and without -W, assert(command_terminated)
\* never fails: whenever wait() has reported that no child is left, the loop
\* has recorded the command's termination, also when fork() failed
C23_AssertCommandTerminatedHolds ==
  (LR /\ wait_for_all_sub_processes # 0 /\ wait_forever = 0)
    => /\ how # "abort"
       /\ no_child_left # 0 => command_terminated # 0


\* C24: the supervisor never leaves through its normal exit path while the
\* command is alive: a normal exit comes after the command was reaped or
\* after wait() reported that no child exists, and of the two exits only the
\* deadline exit happens while the command is alive
C24_NormalExitOnlyAfterCommand ==
  /\ (Exited /\ CommandAlive) => how = "alarm"
  /\ how = "normal" => (cmd_seen \/ echild)

C24_NormalExitAfterCommandReaped ==
  /\ how = "normal" /\ cmd_seen /\ ~echild
  /\ cmd_phase = "gone" /\ \E p \in Pids : pst[p] = "running"


\* C25: whenever tinyreaper exits through the deadline, every descendant
\* alive at that moment, the command included, was sent SIGTERM by a group
\* broadcast of the supervisor, wherever the triggering signal fell relative
\* to the fork of the command (stated here for the command, for a supervisor
\* that leads its group and a deadline signal that its own timer sent)
C25_DeadlineExitAfterCommandSignalled ==
  (Tiny /\ leader /\ how = "alarm" /\ alarm_from = KernelPid /\ CommandAlive)
    => cmd_signalled


\* C26: the shutdown entry actions run only in the supervisor: between
\* fork() and execv() the child never runs the supervisor's signal handler
\* and arms no alarm of its own, so a SIGTERM broadcast that reaches the child
\* acts on the command itself
C26_ChildNeverRunsHandler ==
  ~child.ran /\ ~child.alarm

====
